---- MODULE Spec2Model ----
(***************************************************************************)
(* Call Session Gateway of the CORA voice backend                          *)
(* (backend/app/routes/voice_integration.py): call registry, call-scoped   *)
(* JWT, event timeline and tool dispatcher, over the Supabase store; and   *)
(* the deletion of calls (backend/app/routes/calls_api.py).                *)
(***************************************************************************)
EXTENDS Integers, Sequences, FiniteSets, TLC

(* ---------------- bounds of the model ---------------- *)
\* number of create-call requests issued in a run
MaxCreate == 2
\* number of execute-tool requests issued in a run
MaxTool == 2
\* number of append-event requests issued in a run
MaxAppend == 2
MaxEnd == 2
MaxSms == 2
MaxWs == 2
\* wall clock (epoch seconds) at the first request
StartTime == 1699999999

(* ---------------- program constants ---------------- *)
\* default of the environment variable JWT_TTL_MIN
DefaultTtlMinutes == 15
SeqModulus == 1000000
SecondsPerMinute == 60

\* lifetime of a token under the default configuration
DefaultTTL == DefaultTtlMinutes * SecondsPerMinute

(* ---------------- input domains ---------------- *)
Tenants == {"t1", "t2"}
Sids == {"CA1", "CA2"}
Callers == {"+1555"}
Agents == {"+1999"}
CreateReqs == 1..MaxCreate

ToolNames == {"search_properties", "book_showing", "qualify_lead", "request_callback",
              "transfer_to_human"}
\* tool names a client may send: the closed set and one outside it
RequestedTools == ToolNames \cup {"launch_missiles"}
\* shapes of the argument map: complete, a required field absent, a field
\* present but unusable (datetimeISO not ISO-8601, reason / intent absent)
ArgShapes == {"ok", "missing", "malformed"}
NoKey == ""
IdemKeys == {NoKey, "SHOW-1"}

\* instants at which the clock is observed: the first request, the next
\* second, and the two seconds around the expiry of a token minted first
Times == {StartTime, StartTime + 1, StartTime + DefaultTTL, StartTime + DefaultTTL + 1}

AppendReqs == 1..MaxAppend
\* the types and roles CallEvent admits; "" stands for an absent optional field
EventTypes == {"turn", "tool_call", "tool_result", "status", "summary"}
EventRoles == {"user", "assistant", ""}
\* events a client appends: type, role, text (absent or empty: ""), ts (an
\* ISO-8601 string or one that does not parse)
EventShapes ==
    {[type |-> "turn", role |-> "user", text |-> "hello", ts |-> "iso"],
     [type |-> "turn", role |-> "assistant", text |-> "hello", ts |-> "iso"],
     [type |-> "turn", role |-> "user", text |-> "", ts |-> "iso"],
     [type |-> "status", role |-> "", text |-> "", ts |-> "iso"],
     [type |-> "turn", role |-> "user", text |-> "hello", ts |-> "malformed"],
     [type |-> "status", role |-> "", text |-> "", ts |-> "malformed"],
     [type |-> "prompt", role |-> "", text |-> "hello", ts |-> "iso"]}

\* values of JWT_TTL_MIN a deployment may set: shorter than, equal to and
\* longer than the default
TtlConfigs == {1, DefaultTtlMinutes, DefaultTtlMinutes * 4}

\* JWT_TTL_MINUTES is the module global read from the environment at import
VARIABLES JWT_TTL_MINUTES, clock, calls, creq, handlerCalls, effects, firstEnv, lastTool,
          transcripts, areq, lastAppend, detail, lastEnd,
          filterIn, filter,
          notifications, contacts, handed, sreq, templates, confirmed,
          ws, active_sessions

registry == <<calls, creq>>
toolState == <<handlerCalls, effects, firstEnv, lastTool>>
timeline == <<transcripts, areq, lastAppend, detail>>
\* the voice gateway and the calls API
gateway == <<JWT_TTL_MINUTES, clock, calls, creq, handlerCalls, effects, firstEnv, lastTool,
             transcripts, areq, lastAppend, detail, lastEnd>>
\* the property search filter
search == <<filterIn, filter>>
\* the services beside the gateway
\* the SMS service, its test endpoint and the inbound SMS webhook
sms == <<notifications, contacts, handed, sreq, templates, confirmed>>
\* the conversation relay websocket
relay == <<ws, active_sessions>>
services == <<search, sms, relay>>
vars == <<gateway, services>>

\* timedelta(minutes=JWT_TTL_MINUTES) in seconds
TTL == JWT_TTL_MINUTES * SecondsPerMinute

(* ---------------- token service ---------------- *)
NoToken == [sub |-> 0, tenant_id |-> "", scope |-> {}, iat |-> 0, exp |-> 0, jti |-> <<0, 0>>]

\* a mint that binds the token to the request id instead of the call id
create_call_jwt_sub_request(call_id, tenant_id, request_id, now) ==
    [sub |-> request_id,
     tenant_id |-> tenant_id,
     scope |-> {"events", "tools"},
     iat |-> now,
     exp |-> now + TTL,
     jti |-> <<request_id, now>>]

\* a mint whose token id is the issue time alone
create_call_jwt_jti_time(call_id, tenant_id, request_id, now) ==
    [sub |-> call_id,
     tenant_id |-> tenant_id,
     scope |-> {"events", "tools"},
     iat |-> now,
     exp |-> now + TTL,
     jti |-> <<0, now>>]

\* create_call_jwt: payload of the signed token
create_call_jwt(call_id, tenant_id, request_id, now) ==
    [sub |-> call_id,
     tenant_id |-> tenant_id,
     scope |-> {"events", "tools"},
     iat |-> now,
     exp |-> now + TTL,
     jti |-> <<request_id, now>>]

\* a decode that does not look at the exp claim
JwtDecodeNoExp(tok, now) ==
    IF tok.iat > now THEN "invalid" ELSE "valid"

\* jwt.decode of a token signed with JWT_SECRET: the exp claim is checked against
\* the current second (PyJWT rejects from the expiry second on), iat must not
\* lie in the future
JwtDecode(tok, now) ==
    IF tok.exp <= now THEN "expired"
    ELSE IF tok.iat > now THEN "invalid"
    ELSE "valid"

\* Authorization headers a client can send: none, one that is not a bearer
\* header, a bearer token that does not validate against JWT_SECRET, or a
\* token this service minted
NoHeader == [kind |-> "absent", tok |-> NoToken]
MintedTokens == {creq[r].jwt_token : r \in {x \in DOMAIN creq : creq[x].status = 200}}
Headers ==
    {NoHeader, [kind |-> "not_bearer", tok |-> NoToken], [kind |-> "forged", tok |-> NoToken]}
      \cup {[kind |-> "bearer", tok |-> t] : t \in MintedTokens}

NoAuth == [call_id |-> 0, tenant_id |-> ""]

\* a verification that takes the payload of a bearer token without checking its
\* signature
verify_call_jwt_unsigned(hdr, now) ==
    IF hdr.kind \in {"absent", "not_bearer"} THEN <<401, NoAuth>>
    ELSE <<200, [call_id |-> hdr.tok.sub, tenant_id |-> hdr.tok.tenant_id]>>

\* verify_call_jwt: <<HTTP status, auth context>>
verify_call_jwt(hdr, now) ==
    IF hdr.kind \in {"absent", "not_bearer"} THEN <<401, NoAuth>>
    ELSE IF hdr.kind = "forged" THEN <<401, NoAuth>>
    ELSE IF JwtDecode(hdr.tok, now) # "valid" THEN <<401, NoAuth>>
    ELSE IF "events" \notin hdr.tok.scope /\ "tools" \notin hdr.tok.scope THEN <<403, NoAuth>>
    ELSE <<200, [call_id |-> hdr.tok.sub, tenant_id |-> hdr.tok.tenant_id]>>

(* ---------------- persistence: table calls ---------------- *)
\* A deleted row stays in the sequence as a tombstone, so that the ids the
\* store generates are never reused; every read skips tombstones.
\* rows of table calls whose twilio_sid is sid
CallsBySid(sid) == {i \in 1..Len(calls) : ~calls[i].deleted /\ calls[i].twilio_sid = sid}

\* a row of table calls with this id exists
CallExists(call_id) == \E i \in 1..Len(calls) : ~calls[i].deleted /\ calls[i].id = call_id

\* a store without the constraint
UniqueViolationOff(sid) == FALSE

\* the store's uniqueness constraint on calls.twilio_sid
UniqueViolation(sid) == CallsBySid(sid) # {}

\* .select("*").eq("twilio_sid", sid).single(): succeeds on exactly one row
SingleBySid(sid) == Cardinality(CallsBySid(sid)) = 1

IdleCreate == [pc |-> "idle", tenant_id |-> "", twilio_sid |-> "", caller_number |-> "",
               agent_number |-> "", lk |-> "-", ins |-> "-", call_id |-> 0,
               jwt_token |-> NoToken, status |-> 0]

(* ---------------- create-call ---------------- *)
\* a found path that answers with a new id instead of the row's
FoundCallIdFresh(sid) == Len(calls) + 1

\* call_id returned on the found path
FoundCallId(sid) == calls[CHOOSE i \in CallsBySid(sid) : TRUE].id

\* a lookup whose found path rewrites the row with the numbers of the request
create_call_lookup_upsert(r, t, s, c, a, svcOk, storeOk) ==
    /\ creq[r].pc = "idle"
    /\ \A p \in CreateReqs : p < r => creq[p].pc # "idle"
    /\   LET q == [IdleCreate EXCEPT !.tenant_id = t, !.twilio_sid = s,
                                     !.caller_number = c, !.agent_number = a] IN
         IF ~svcOk
         THEN /\ creq' = [creq EXCEPT ![r] = [q EXCEPT !.pc = "done", !.status = 500]]
              /\ UNCHANGED calls
         ELSE IF storeOk /\ SingleBySid(s)
         THEN /\ creq' = [creq EXCEPT ![r] = [q EXCEPT !.pc = "done", !.lk = "found",
                              !.call_id = FoundCallId(s),
                              !.jwt_token = create_call_jwt(FoundCallId(s), t, r, clock),
                              !.status = 200]]
              /\ calls' = [i \in 1..Len(calls) |->
                              IF i \in CallsBySid(s)
                              THEN [calls[i] EXCEPT !.caller_number = c, !.agent_number = a]
                              ELSE calls[i]]
         ELSE /\ creq' = [creq EXCEPT ![r] = [q EXCEPT !.pc = "insert",
                              !.lk = IF storeOk THEN "none" ELSE "error"]]
              /\ UNCHANGED calls
    /\ UNCHANGED <<services, JWT_TTL_MINUTES, lastEnd, clock, toolState, timeline>>

\* POST /api/calls arrives and runs its lookup by twilio_sid; any exception of
\* the lookup (no row, several rows, store failure) falls through to the insert,
\* a store client that cannot be constructed (svcOk false) is answered 500.
\* Requests are numbered in order of arrival.
create_call_lookup(r, t, s, c, a, svcOk, storeOk) ==
    /\ creq[r].pc = "idle"
    /\ \A p \in CreateReqs : p < r => creq[p].pc # "idle"
    /\   LET q == [IdleCreate EXCEPT !.tenant_id = t, !.twilio_sid = s,
                                     !.caller_number = c, !.agent_number = a] IN
         IF ~svcOk
         THEN creq' = [creq EXCEPT ![r] = [q EXCEPT !.pc = "done", !.status = 500]]
         ELSE IF storeOk /\ SingleBySid(s)
         THEN creq' = [creq EXCEPT ![r] = [q EXCEPT !.pc = "done", !.lk = "found",
                         !.call_id = FoundCallId(s),
                         !.jwt_token = create_call_jwt(FoundCallId(s), t, r, clock),
                         !.status = 200]]
         ELSE creq' = [creq EXCEPT ![r] = [q EXCEPT !.pc = "insert",
                         !.lk = IF storeOk THEN "none" ELSE "error"]]
    /\ UNCHANGED <<services, JWT_TTL_MINUTES, lastEnd, clock, calls, toolState, timeline>>

\* value of the two status columns of a row inserted without them
DefaultStatus == "in_progress"

\* the row built for the insert
NewCallRow(q, id, now) ==
    [id |-> id, tenant_id |-> q.tenant_id, twilio_sid |-> q.twilio_sid,
     caller_number |-> q.caller_number, agent_number |-> q.agent_number,
     started_at |-> now, call_status |-> DefaultStatus, status |-> DefaultStatus,
     end_time |-> 0, duration |-> 0, transcript |-> "",
     deleted |-> FALSE]

\* the insert; any exception becomes HTTP 500
create_call_insert(r, storeOk) ==
    /\ creq[r].pc = "insert"
    /\   IF ~storeOk
         THEN /\ creq' = [creq EXCEPT ![r].pc = "done", ![r].ins = "error", ![r].status = 500]
              /\ UNCHANGED calls
         ELSE IF UniqueViolation(creq[r].twilio_sid)
         THEN /\ creq' = [creq EXCEPT ![r].pc = "done", ![r].ins = "unique_violation",
                            ![r].status = 500]
              /\ UNCHANGED calls
         ELSE LET id == Len(calls) + 1 IN
              /\ calls' = Append(calls, NewCallRow(creq[r], id, clock))
              /\ creq' = [creq EXCEPT ![r].pc = "done", ![r].ins = "ok", ![r].call_id = id,
                            ![r].jwt_token = create_call_jwt(id, creq[r].tenant_id, r, clock),
                            ![r].status = 200]
    /\ UNCHANGED <<services, JWT_TTL_MINUTES, lastEnd, clock, toolState, timeline>>

(* ---------------- tool dispatcher ---------------- *)
\* ToolEnvelope: ok, whether data and error are populated, the record id in the
\* data, and code, message (populated or not) and retryable of the error
NoEnv == [ok |-> FALSE, data |-> FALSE, error |-> FALSE, id |-> 0, code |-> "",
          message |-> FALSE, retryable |-> FALSE]
OkEnv(id) == [ok |-> TRUE, data |-> TRUE, error |-> FALSE, id |-> id, code |-> "",
              message |-> FALSE, retryable |-> FALSE]

\* an error envelope that also carries data
ErrEnvWithData(code, retryable) ==
    [ok |-> FALSE, data |-> TRUE, error |-> TRUE, id |-> 0, code |-> code,
     message |-> TRUE, retryable |-> retryable]

ErrEnv(code, retryable) ==
    [ok |-> FALSE, data |-> FALSE, error |-> TRUE, id |-> 0, code |-> code,
     message |-> TRUE, retryable |-> retryable]

\* tools whose handler takes the X-Idempotency-Key
SideEffectTools == {"book_showing", "request_callback"}

\* Every handler is one try block: <<envelope, side effect announced, an
\* exception was raised in the body>>.

\* handle_book_showing. The confirmation id is the wall clock to the second; the
\* key is accepted and not consulted. The booking is announced before the reply
\* text parses datetimeISO.
handle_book_showing(args, key, now) ==
    IF args = "missing" THEN <<ErrEnv("VALIDATION_FAILED", FALSE), FALSE, FALSE>>
    ELSE IF args = "malformed" THEN <<ErrEnv("TOOL_FAILED", TRUE), TRUE, TRUE>>
    ELSE <<OkEnv(now), TRUE, FALSE>>

\* handle_request_callback. A missing phone is a validation failure; a missing
\* reason raises while the task is built.
handle_request_callback(args, key, now) ==
    IF args = "missing" THEN <<ErrEnv("VALIDATION_FAILED", FALSE), FALSE, FALSE>>
    ELSE IF args = "malformed" THEN <<ErrEnv("TOOL_FAILED", TRUE), FALSE, TRUE>>
    ELSE <<OkEnv(now), TRUE, FALSE>>

\* a handler whose exceptions reach execute_tool's own except clause
handle_qualify_lead_uncaught(args, now) ==
    IF args \in {"missing", "malformed"} THEN <<ErrEnv("TOOL_FAILED", FALSE), FALSE, TRUE>>
    ELSE <<OkEnv(now), FALSE, FALSE>>

\* handle_qualify_lead: a missing intent or a budget that does not compare
\* with a number raises inside the handler
handle_qualify_lead(args, now) ==
    IF args \in {"missing", "malformed"} THEN <<ErrEnv("TOOL_FAILED", TRUE), FALSE, TRUE>>
    ELSE <<OkEnv(now), FALSE, FALSE>>

\* handle_search_properties: every argument is optional; an argument the
\* search filter does not accept raises, and the search service either answers
\* or fails
handle_search_properties(args, serviceOk) ==
    IF args # "malformed" /\ serviceOk THEN <<OkEnv(0), FALSE, FALSE>>
    ELSE <<ErrEnv("TOOL_FAILED", TRUE), FALSE, TRUE>>

\* handle_transfer_to_human: defaults for every absent argument; a queue that
\* cannot be a dictionary key raises
handle_transfer_to_human(args, now) ==
    IF args = "malformed" THEN <<ErrEnv("TOOL_FAILED", TRUE), FALSE, TRUE>>
    ELSE <<OkEnv(now), FALSE, FALSE>>

\* a routing that replays the first envelope of a key for every tool
DispatchKeyed(tool, args, key, now, serviceOk) ==
    IF key # NoKey THEN <<OkEnv(0), FALSE, FALSE>>
    ELSE IF tool = "search_properties" THEN handle_search_properties(args, serviceOk)
    ELSE IF tool = "book_showing" THEN handle_book_showing(args, key, now)
    ELSE IF tool = "qualify_lead" THEN handle_qualify_lead(args, now)
    ELSE IF tool = "request_callback" THEN handle_request_callback(args, key, now)
    ELSE handle_transfer_to_human(args, now)

\* the routing of execute_tool
Dispatch(tool, args, key, now, serviceOk) ==
    IF tool = "search_properties" THEN handle_search_properties(args, serviceOk)
    ELSE IF tool = "book_showing" THEN handle_book_showing(args, key, now)
    ELSE IF tool = "qualify_lead" THEN handle_qualify_lead(args, now)
    ELSE IF tool = "request_callback" THEN handle_request_callback(args, key, now)
    ELSE IF tool = "transfer_to_human" THEN handle_transfer_to_human(args, now)
    ELSE <<ErrEnv("NOT_FOUND", FALSE), FALSE, FALSE>>

\* the request body parses as a ToolExecuteRequest; otherwise the framework
\* answers 422 before the handler runs
ToolRequestValid(tool) == tool \in ToolNames

\* a check that rejects only when both components differ
AuthMismatchBoth(auth, call_id, tenant_id) ==
    auth.tenant_id # tenant_id /\ auth.call_id # call_id

\* the check of the JWT context against the request body
AuthMismatch(auth, call_id, tenant_id) ==
    auth.tenant_id # tenant_id \/ auth.call_id # call_id

\* the last execute-tool exchange: request body, verified context, response
NoTool == [n |-> 0, hdr |-> NoHeader, auth |-> NoAuth, call_id |-> 0, tenant_id |-> "",
           tool |-> "", args |-> "", key |-> NoKey, status |-> 0, env |-> NoEnv,
           invoked |-> FALSE, raised |-> FALSE]

\* POST /api/tools/execute with the given header and body; svcOk: the store
\* client can be constructed; serviceOk: the search service answers
execute_tool(hdr, call_id, tenant_id, tool, args, key, svcOk, serviceOk) ==
    /\ lastTool.n < MaxTool
    /\ LET v == verify_call_jwt(hdr, clock)
           auth == v[2]
           req == [NoTool EXCEPT !.n = lastTool.n + 1, !.hdr = hdr, !.auth = auth,
                                 !.call_id = call_id, !.tenant_id = tenant_id]
       IN
       IF v[1] # 200
       THEN /\ lastTool' = [req EXCEPT !.status = v[1]]
            /\ UNCHANGED <<handlerCalls, effects, firstEnv>>
       ELSE IF ~ToolRequestValid(tool)
       THEN /\ lastTool' = [req EXCEPT !.status = 422, !.tool = tool]
            /\ UNCHANGED <<handlerCalls, effects, firstEnv>>
       ELSE IF AuthMismatch(auth, call_id, tenant_id)
       THEN /\ lastTool' = [req EXCEPT !.status = 403]
            /\ UNCHANGED <<handlerCalls, effects, firstEnv>>
       ELSE IF ~svcOk
       THEN /\ lastTool' = [req EXCEPT !.status = 200, !.env = ErrEnv("TOOL_FAILED", FALSE)]
            /\ UNCHANGED <<handlerCalls, effects, firstEnv>>
       ELSE LET res == Dispatch(tool, args, key, clock, serviceOk)
                env == res[1]
            IN
            /\ lastTool' = [req EXCEPT !.status = 200, !.env = env, !.invoked = TRUE,
                                       !.tool = tool, !.args = args, !.key = key,
                                       !.raised = res[3]]
            /\ handlerCalls' = handlerCalls + 1
            /\ effects' = IF res[2] THEN [effects EXCEPT ![<<tool, key>>] = @ + 1]
                          ELSE effects
            /\ firstEnv' = IF tool \in SideEffectTools /\ env.ok /\ ~firstEnv[<<tool, key>>].ok
                           THEN [firstEnv EXCEPT ![<<tool, key>>] = env]
                           ELSE firstEnv
    /\ UNCHANGED <<services, JWT_TTL_MINUTES, lastEnd, clock, registry, timeline>>

\* a search the handler awaits: the request was dispatched and has no response
InFlight == lastTool.n > 0 /\ lastTool.invoked /\ lastTool.status = 0

\* POST /api/tools/execute for search_properties, up to the handler's await of
\* the search service; a request refused before the handler completes at once
execute_tool_search_begin(hdr, call_id, tenant_id, args, key, svcOk) ==
    /\ ~InFlight
    /\ LET v == verify_call_jwt(hdr, clock) IN
       IF v[1] # 200 \/ AuthMismatch(v[2], call_id, tenant_id) \/ ~svcOk \/ args = "malformed"
       THEN execute_tool(hdr, call_id, tenant_id, "search_properties", args, key, svcOk, TRUE)
       ELSE /\ lastTool.n < MaxTool
            /\ lastTool' = [NoTool EXCEPT !.n = lastTool.n + 1, !.hdr = hdr, !.auth = v[2],
                                          !.call_id = call_id, !.tenant_id = tenant_id,
                                          !.tool = "search_properties", !.args = args,
                                          !.key = key, !.invoked = TRUE]
            /\ handlerCalls' = handlerCalls + 1
            /\ UNCHANGED <<services, JWT_TTL_MINUTES, lastEnd, clock, registry, timeline, effects, firstEnv>>

\* the search service answers or fails, and the handler returns its envelope
search_completes(serviceOk) ==
    /\ InFlight
    /\ LET res == handle_search_properties(lastTool.args, serviceOk) IN
          lastTool' = [lastTool EXCEPT !.status = 200, !.env = res[1], !.raised = res[3]]
    /\ UNCHANGED <<services, JWT_TTL_MINUTES, lastEnd, clock, registry, timeline, handlerCalls, effects, firstEnv>>

(* ---------------- event timeline ---------------- *)
NoEvent == [type |-> "", role |-> "", text |-> "", ts |-> ""]
IdleAppend == [pc |-> "idle", hdr |-> NoHeader, auth |-> NoAuth, call_id |-> 0,
               evt |-> NoEvent, sequence_number |-> 0, prior |-> 0]
DoneAppend == [IdleAppend EXCEPT !.pc = "done"]

\* what a response carries: the success payload, an HTTPException with a fixed
\* detail or with a detail that embeds the text of the caught exception or store
\* error, the framework's report of a body that does not parse, or nothing the
\* handler built (an exception nobody caught, answered by the server itself)
ResponseBodies == {"payload", "detail", "detail_exception", "validation", "unhandled"}

\* the last append-event exchange: request, verified context, response
NoAppend == [a |-> 0, hdr |-> NoHeader, auth |-> NoAuth, call_id |-> 0, evt |-> NoEvent,
             status |-> 0, body |-> "", skipped |-> FALSE, inserted |-> 0]

\* sequence_number of the payload: the wall clock second modulo one million
SequenceNumber(now) == now % SeqModulus

\* the request body parses as a CallEvent; otherwise the framework answers 422
\* before the handler runs
CallEventValid(evt) == evt.type \in EventTypes /\ evt.role \in EventRoles

\* a handler that does not compare the token with the path
PathMismatchOff(auth, call_id) == FALSE

\* the check of the token's call id against the path
PathMismatch(auth, call_id) == auth.call_id # call_id

\* a handler that stores the current time for a timestamp that does not parse
NormalizeTsDefaulting(ts) == IF ts = "iso" THEN "iso" ELSE "now"

\* the timestamp in canonical form, "invalid" for a string fromisoformat rejects
NormalizeTs(ts) == IF ts = "iso" THEN "iso" ELSE "invalid"

\* only a turn with text is processed
Skipped(evt) == evt.type # "turn" \/ evt.text = ""

\* POST /api/calls/{call_id}/events up to the insert: token (dependency), body
\* schema, path check, timestamp, skip of everything but a turn with text,
\* payload, and the construction of the store client, which no try encloses. prior counts the rows already stored when the request starts.
add_call_event(a, hdr, call_id, evt, svcOk) ==
    /\ areq[a].pc = "idle"
    /\ \A p \in AppendReqs : p < a => areq[p].pc # "idle"
    /\ LET v == verify_call_jwt(hdr, clock)
           req == [NoAppend EXCEPT !.a = a, !.hdr = hdr, !.auth = v[2], !.call_id = call_id,
                                   !.evt = evt]
           reply(st, skip, body) ==
              /\ areq' = [areq EXCEPT ![a] = DoneAppend]
              /\ lastAppend' = [req EXCEPT !.status = st, !.skipped = skip, !.body = body]
       IN
       IF v[1] # 200 THEN reply(v[1], FALSE, "detail")
       ELSE IF ~CallEventValid(evt) THEN reply(422, FALSE, "validation")
       ELSE IF PathMismatch(v[2], call_id) THEN reply(403, FALSE, "detail")
       ELSE IF NormalizeTs(evt.ts) = "invalid" THEN reply(400, FALSE, "detail")
       ELSE IF Skipped(evt) THEN reply(200, TRUE, "payload")
       ELSE IF ~svcOk THEN reply(500, FALSE, "unhandled")
       ELSE /\ areq' = [areq EXCEPT ![a] =
                          [pc |-> "insert", hdr |-> hdr, auth |-> v[2], call_id |-> call_id,
                           evt |-> evt, sequence_number |-> SequenceNumber(clock),
                           prior |-> Len(transcripts)]]
            /\ UNCHANGED lastAppend
    /\ UNCHANGED <<services, JWT_TTL_MINUTES, lastEnd, clock, registry, toolState, transcripts, detail>>

\* the insert into call_transcripts and the reply; the store may raise (502) or
\* answer with an error or no data (500); a row for a call that no longer
\* exists is refused by the store
add_call_event_insert(a, outcome) ==
    /\ areq[a].pc = "insert"
    /\ LET req == [NoAppend EXCEPT !.a = a, !.hdr = areq[a].hdr, !.auth = areq[a].auth,
                                   !.call_id = areq[a].call_id, !.evt = areq[a].evt]
       IN
       IF outcome = "ok" /\ ~CallExists(areq[a].call_id)
       THEN /\ lastAppend' = [req EXCEPT !.status = 502, !.body = "detail_exception"]
            /\ UNCHANGED transcripts
       ELSE IF outcome = "ok"
       THEN /\ transcripts' = Append(transcripts,
                 [call_id |-> areq[a].call_id, speaker |-> areq[a].evt.role,
                  message |-> areq[a].evt.text, timestamp |-> NormalizeTs(areq[a].evt.ts),
                  sequence_number |-> areq[a].sequence_number, prior |-> areq[a].prior,
                  deleted |-> FALSE])
            /\ lastAppend' = [req EXCEPT !.status = 200, !.inserted = 1, !.body = "payload"]
       ELSE /\ lastAppend' = [req EXCEPT !.status = IF outcome = "raise" THEN 502 ELSE 500,
                                          !.body = "detail_exception"]
            /\ UNCHANGED transcripts
    /\ areq' = [areq EXCEPT ![a] = DoneAppend]
    /\ UNCHANGED <<services, JWT_TTL_MINUTES, lastEnd, clock, registry, toolState, detail>>

StoreOutcomes == {"ok", "raise", "error"}

\* rows of call_transcripts of one call
RowsOf(call_id) ==
    {i \in 1..Len(transcripts) : ~transcripts[i].deleted /\ transcripts[i].call_id = call_id}

\* .order("sequence_number"): ascending; the store fixes no order among equal keys
OrderedBySeq(rows) ==
    \A p, q \in 1..Len(rows) :
       p < q => transcripts[rows[p]].sequence_number <= transcripts[rows[q]].sequence_number

\* the orders in which the store may return the rows of a call
Listings(call_id) ==
    {rows \in [1..Cardinality(RowsOf(call_id)) -> RowsOf(call_id)] :
        /\ \A p, q \in DOMAIN rows : p # q => rows[p] # rows[q]
        /\ OrderedBySeq(rows)}

NoDetail == [status |-> 0, call_id |-> 0, rows |-> <<>>]

\* GET /api/calls/{call_id}: the call and its transcript in the order returned
get_call_detail(call_id, storeOk) ==
    /\ IF storeOk /\ CallExists(call_id)
       THEN \E rows \in Listings(call_id) :
               detail' = [status |-> 200, call_id |-> call_id, rows |-> rows]
       ELSE detail' = [status |-> 500, call_id |-> call_id, rows |-> <<>>]
    /\ UNCHANGED <<services, JWT_TTL_MINUTES, lastEnd, clock, registry, toolState, transcripts, areq, lastAppend>>

(* ---------------- calls API: deletion ---------------- *)
\* what the store does with the call_transcripts rows of a deleted call: the
\* schema is not part of the repository; delete_call relies on cascading
\* deletes, a foreign key without the cascade refuses the delete
OnDeleteRules == {"cascade", "restrict"}

\* .delete() of the calls with these ids under the given rule
DeleteCalls(ids, onDelete) ==
    IF onDelete = "restrict" /\ \E id \in ids : RowsOf(id) # {}
    THEN UNCHANGED <<calls, transcripts>>
    ELSE /\ calls' = [i \in DOMAIN calls |->
                        IF calls[i].id \in ids THEN [calls[i] EXCEPT !.deleted = TRUE]
                        ELSE calls[i]]
         /\ transcripts' = [i \in DOMAIN transcripts |->
                        IF transcripts[i].call_id \in ids
                        THEN [transcripts[i] EXCEPT !.deleted = TRUE]
                        ELSE transcripts[i]]

\* DELETE /api/calls/{call_id}: no token is asked for; a store failure is a 500
delete_call(call_id, onDelete, storeOk) ==
    /\ IF storeOk THEN DeleteCalls({call_id}, onDelete) ELSE UNCHANGED <<calls, transcripts>>
    /\ UNCHANGED <<services, JWT_TTL_MINUTES, lastEnd, clock, creq, toolState, areq, lastAppend, detail>>

\* POST /api/calls/bulk-delete: an empty list is a 400
bulk_delete_calls(call_ids, onDelete, storeOk) ==
    /\ IF storeOk /\ call_ids # {} THEN DeleteCalls(call_ids, onDelete)
       ELSE UNCHANGED <<calls, transcripts>>
    /\ UNCHANGED <<services, JWT_TTL_MINUTES, lastEnd, clock, creq, toolState, areq, lastAppend, detail>>

(* ---------------- call completion ---------------- *)
\* the last end_call: its arguments and whether it returned the updated row
NoEnd == [n |-> 0, call_id |-> 0, duration |-> 0, transcript |-> "", ok |-> FALSE]

\* the updates of end_call applied to a row: both status columns and end_time
\* are always written, duration and transcript when truthy
EndUpdates(row, duration, transcript, now) ==
    [row EXCEPT !.call_status = "completed", !.status = "completed", !.end_time = now,
                !.duration = IF duration # 0 THEN duration ELSE @,
                !.transcript = IF transcript # "" THEN transcript ELSE @]

\* the rows the update's filter .eq("id", call_id) selects
RowsById(call_id) == {i \in 1..Len(calls) : ~calls[i].deleted /\ calls[i].id = call_id}

\* SupabaseService.end_call through update_call: an update that returns no row,
\* or a store failure, raises
end_call(call_id, duration, transcript, storeOk) ==
    /\ lastEnd.n < MaxEnd
    /\ LET req == [NoEnd EXCEPT !.n = lastEnd.n + 1, !.call_id = call_id,
                                !.duration = duration, !.transcript = transcript]
       IN
       IF storeOk /\ RowsById(call_id) # {}
       THEN /\ calls' = [i \in 1..Len(calls) |->
                           IF i \in RowsById(call_id)
                           THEN EndUpdates(calls[i], duration, transcript, clock)
                           ELSE calls[i]]
            /\ lastEnd' = [req EXCEPT !.ok = TRUE]
       ELSE /\ lastEnd' = req
            /\ UNCHANGED calls
    /\ UNCHANGED <<services, JWT_TTL_MINUTES, clock, creq, toolState, timeline>>

\* PUT /api/calls/{call_id}/archive: no token is asked for; the status column
\* of the row is set to archived, a missing row is a 404, a store failure a 500
archive_call(call_id, storeOk) ==
    /\ IF storeOk /\ RowsById(call_id) # {}
       THEN calls' = [i \in 1..Len(calls) |->
                        IF i \in RowsById(call_id)
                        THEN [calls[i] EXCEPT !.status = "archived"]
                        ELSE calls[i]]
       ELSE UNCHANGED calls
    /\ UNCHANGED <<services, JWT_TTL_MINUTES, lastEnd, clock, creq, toolState, timeline>>

(* ---------------- property search filter ---------------- *)
\* max(a, b) and min(a, b)
Max(a, b) == IF a >= b THEN a ELSE b
Min(a, b) == IF a <= b THEN a ELSE b

\* the cap on page_size and the least page and page_size
MaxPageSize == 50
MinPage == 1
DefaultPageSize == 10

valid_sorts == {"price_asc", "price_desc", "newest", "beds_desc", "sqft_desc"}

\* the field defaults of PropertySearchFilter
DefaultFilter == [page |-> MinPage, page_size |-> DefaultPageSize, sort |-> "price_desc"]
NoFilter == [page |-> 0, page_size |-> 0, sort |-> ""]

validate_page(v) == Max(MinPage, v)

\* a page_size validator without the cap
validate_page_size_uncapped(v) == Max(MinPage, v)

validate_page_size(v) == Min(MaxPageSize, Max(MinPage, v))

validate_sort(v) == IF v \in valid_sorts THEN v ELSE "price_desc"

\* PropertySearchFilter(page=..., page_size=..., sort=...): each given field
\* passes through its validator
PropertySearchFilter ==
    /\ filter = NoFilter
    /\ filter' = [page |-> validate_page(filterIn.page),
                  page_size |-> validate_page_size(filterIn.page_size),
                  sort |-> validate_sort(filterIn.sort)]
    /\ UNCHANGED <<gateway, relay, sms, filterIn>>

(* ---------------- SMS service ---------------- *)
SmsReqs == 1..MaxSms

\* recipients in normalized form, and a number that does not normalize
SmsPhones == {"+15550001", "+15550002"}
InvalidPhone == "0000000000"

\* idempotency keys of send_sms requests
SmsKeys == {NoKey, "K1"}

\* templates["missed_call"] as constructed, and messages of test requests
OriginalTemplate == "missed_call"
TestMessages == {"test A", "test B"}
NoTest == ""

\* what the notifications table does with a second row for one idempotency
\* key: the schema is not part of the repository
NotificationKeyRules == {"none", "unique"}

\* outcomes of one twilio_client.messages.create: a message sid, a
\* TwilioRestException with its HTTP status, any other exception
RestStatuses == {399, 400, 499, 500}
ProviderOutcomes ==
    {[kind |-> "ok", status |-> 0], [kind |-> "other", status |-> 0]}
       \cup {[kind |-> "rest", status |-> st] : st \in RestStatuses}

\* range(3)
MaxAttempts == 3

\* a test that takes no status for a client error
ClientErrorNever(status) == FALSE

\* 400 <= e.status < 500
ClientError(status) == 400 <= status /\ status < 500

\* a send_sms request: position, arguments, the template saved by the test
\* endpoint, the notification row, the provider attempts made, the response
IdleSms == [pc |-> "idle", to |-> "", key |-> NoKey, test |-> NoTest, original |-> "",
            nid |-> 0, mock |-> FALSE, tries |-> <<>>,
            ok |-> FALSE, status |-> "", code |-> "", error |-> ""]

\* rows of notifications with an idempotency key
KeyRows(key) == {i \in 1..Len(notifications) : notifications[i].idempotency_key = key}

\* check_idempotency: the row of the key (0 for None); .single() raises on no
\* row, on several rows and on a store failure, and every exception is None
check_idempotency(key, storeOk) ==
    IF key # NoKey /\ storeOk /\ Cardinality(KeyRows(key)) = 1
    THEN CHOOSE i \in KeyRows(key) : TRUE
    ELSE 0

\* check_contact_opt_out: the flag of the contact; every exception (no contact,
\* store failure) is False
check_contact_opt_out(phone, storeOk) == storeOk /\ contacts[phone] = "out"

\* update_notification_status: an exception is logged and swallowed
update_notification_status(rows, nid, status, storeOk) ==
    IF storeOk THEN [rows EXCEPT ![nid].status = status] ELSE rows

\* the response of send_sms and what the test endpoint's finally restores
SmsDone(q, ok, status, code, error) ==
    [q EXCEPT !.pc = "done", !.ok = ok, !.status = status, !.code = code, !.error = error]

\* one provider attempt of request q (the attempt number is Len(q.tries) + 1)
\* with the given outcome: the attempt is recorded, the request returns or
\* sleeps before the next attempt
Attempt(s, q, rows, out, updOk) ==
    LET tries == Append(q.tries, out)
        p == [q EXCEPT !.tries = tries]
        finished == out.kind = "ok" \/ (out.kind = "rest" /\ ClientError(out.status))
                       \/ Len(tries) = MaxAttempts
        result == IF out.kind = "ok" THEN SmsDone(p, TRUE, "sent", "", "")
                  ELSE IF out.kind = "rest" /\ ClientError(out.status)
                  THEN SmsDone(p, FALSE, "failed", "", "Twilio error")
                  ELSE SmsDone(p, FALSE, "failed", "", "All retry attempts failed")
    IN
    /\ handed' = Append(handed, [to |-> q.to, key |-> q.key, req |-> s,
                                 accepted |-> out.kind = "ok"])
    /\ IF finished
       THEN /\ sreq' = [sreq EXCEPT ![s] = result]
            /\ notifications' = update_notification_status(rows, q.nid, result.status, updOk)
            /\ templates' = IF q.test # NoTest THEN q.original ELSE templates
       ELSE /\ sreq' = [sreq EXCEPT ![s] = [p EXCEPT !.pc = "backoff"]]
            /\ notifications' = rows
            /\ templates' = IF q.test # NoTest THEN q.test ELSE templates

\* POST /api/notifications/sms (test = NoTest) and POST /api/notifications/test
\* (test = the message, which replaces templates["missed_call"] while send_sms
\* runs), up to the response or to the first sleep between provider attempts.
\* mock: APP_ENV is development; idemOk, tenantOk, optOk, insertOk, updOk: the
\* store answers that call; renderOk: the payload has the template's variables
send_sms(s, to, key, test, mock, idemOk, tenantOk, optOk, renderOk, insertOk, keyRule, out, updOk) ==
    /\ sreq[s].pc = "idle"
    /\ \A p \in DOMAIN sreq : p < s => sreq[p].pc # "idle"
    /\ LET q == [IdleSms EXCEPT !.to = to, !.key = key, !.test = test,
                                !.original = templates, !.mock = mock]
           existing == check_idempotency(key, idemOk)
           refused(code, error) ==
              /\ sreq' = [sreq EXCEPT ![s] = SmsDone(q, FALSE, "failed", code, error)]
              /\ UNCHANGED <<notifications, handed, templates>>
           rows == Append(notifications,
                     [id |-> Len(notifications) + 1, to_number |-> to,
                      idempotency_key |-> key, status |-> "queued"])
           p == [q EXCEPT !.nid = Len(notifications) + 1]
       IN
       IF to \notin SmsPhones THEN refused("", "SMS service error")
       ELSE IF existing # 0 /\ notifications[existing].status = "sent"
       THEN /\ sreq' = [sreq EXCEPT ![s] =
                          SmsDone([q EXCEPT !.nid = existing], TRUE, "sent", "", "")]
            /\ UNCHANGED <<notifications, handed, templates>>
       ELSE IF ~tenantOk THEN refused("sms_disabled", "SMS disabled for tenant")
       ELSE IF check_contact_opt_out(to, optOk)
       THEN refused("opted_out", "Contact has opted out of SMS")
       ELSE IF ~renderOk THEN refused("", "SMS service error")
       ELSE IF ~insertOk \/ (keyRule = "unique" /\ key # NoKey /\ KeyRows(key) # {})
       THEN refused("", "SMS service error")
       ELSE IF mock
       THEN /\ sreq' = [sreq EXCEPT ![s] = SmsDone(p, TRUE, "sent", "", "")]
            /\ notifications' = update_notification_status(rows, p.nid, "sent", updOk)
            /\ UNCHANGED <<handed, templates>>
       ELSE Attempt(s, p, rows, out, updOk)
    /\ UNCHANGED <<gateway, relay, search, contacts, confirmed>>

\* the sleep between two provider attempts is over: the next attempt
send_twilio_sms_retry(s, out, updOk) ==
    /\ sreq[s].pc = "backoff"
    /\ Attempt(s, sreq[s], notifications, out, updOk)
    /\ UNCHANGED <<gateway, relay, search, contacts, confirmed>>

(* ---------------- inbound SMS webhook ---------------- *)
InboundBodies == {"stop", "start", "help", "other"}

\* set_contact_opt_out: update of the contact, insert when no row was updated;
\* an exception is logged and swallowed
set_contact_opt_out(phone, opted_out, storeOk) ==
    IF storeOk THEN [contacts EXCEPT ![phone] = IF opted_out THEN "out" ELSE "in"]
    ELSE contacts

\* POST /twilio/sms-inbound: STOP and START record the flag and are answered
\* with the confirmation whatever became of the store call
handle_inbound_sms(phone, body, storeOk) ==
    /\ contacts' = IF body = "stop" THEN set_contact_opt_out(phone, TRUE, storeOk)
                   ELSE IF body = "start" THEN set_contact_opt_out(phone, FALSE, storeOk)
                   ELSE contacts
    /\ confirmed' = IF body \in {"stop", "start"} THEN [confirmed EXCEPT ![phone] = body]
                    ELSE confirmed
    /\ UNCHANGED <<gateway, relay, search, notifications, handed, sreq, templates>>

(* ---------------- conversation relay websocket ---------------- *)
WsConns == 1..MaxWs

\* a websocket connection: position, call_sid, the session (none; without a
\* call id when the store was not available; with one), whether lead_info
\* holds anything, how the connection ended, and how many times
\* CallSession.end_call marked the call completed and captured the lead
IdleWs == [pc |-> "idle", call_sid |-> "", session |-> "none", lead |-> FALSE, how |-> "",
           completions |-> 0, leads |-> 0]

\* CallSession.end_call: nothing without a call id; otherwise the call is
\* marked completed and, when that did not raise and lead_info holds
\* something, the lead is captured; exceptions are logged
CallSession_end_call(w, storeOk) ==
    IF w.session # "db" THEN w
    ELSE [w EXCEPT !.completions = @ + 1,
                   !.leads = IF storeOk /\ w.lead THEN @ + 1 ELSE @]

\* the finally of websocket_endpoint: a session whose call_sid is registered
\* is ended and its registration deleted
WsFinally(c, w, storeOk) ==
    IF w.session # "none" /\ active_sessions[w.call_sid] # 0
    THEN /\ ws' = [ws EXCEPT ![c] = [CallSession_end_call(w, storeOk) EXCEPT !.pc = "closed"]]
         /\ active_sessions' = [active_sessions EXCEPT ![w.call_sid] = 0]
    ELSE /\ ws' = [ws EXCEPT ![c] = [w EXCEPT !.pc = "closed"]]
         /\ UNCHANGED active_sessions

\* the connection is accepted and the session created and registered; reading
\* the query parameters may raise (queryOk), the store client may be missing
\* (svcOk) and the creation of the call record may fail (initOk)
websocket_connect(c, sid, queryOk, svcOk, initOk) ==
    /\ ws[c].pc = "idle"
    \* connections are numbered in the order they are accepted
    /\ \A p \in WsConns : p < c => ws[p].pc # "idle"
    /\ IF ~queryOk
       THEN WsFinally(c, [IdleWs EXCEPT !.how = "error"], TRUE)
       ELSE /\ ws' = [ws EXCEPT ![c] =
                        [IdleWs EXCEPT !.pc = "open", !.call_sid = sid,
                                       !.session = IF svcOk /\ initOk THEN "db" ELSE "nodb"]]
            /\ active_sessions' = [active_sessions EXCEPT ![sid] = c]
    /\ UNCHANGED <<gateway, search, sms>>

\* a setup, prompt, interrupt or dtmf message; a prompt may leave lead_info
WsMessages == {"setup", "prompt", "interrupt", "dtmf"}
websocket_message(c, type, lead) ==
    /\ ws[c].pc = "open"
    /\ ws' = [ws EXCEPT ![c].lead = @ \/ (type = "prompt" /\ lead)]
    /\ UNCHANGED <<gateway, search, sms, active_sessions>>

\* the end message: the session is ended, the loop left, and the finally runs
websocket_end(c, storeOk, finallyOk) ==
    /\ ws[c].pc = "open"
    /\ WsFinally(c, [CallSession_end_call(ws[c], storeOk) EXCEPT !.how = "end"], finallyOk)
    /\ UNCHANGED <<gateway, search, sms>>

\* the peer disconnects or a send or receive raises: the finally runs
WsAborts == {"disconnect", "error"}
websocket_abort(c, how, storeOk) ==
    /\ ws[c].pc = "open"
    /\ WsFinally(c, [ws[c] EXCEPT !.how = how], storeOk)
    /\ UNCHANGED <<gateway, search, sms>>

\* time passes
Tick(t) ==
    /\ t > clock
    /\ clock' = t
    /\ UNCHANGED <<services, JWT_TTL_MINUTES, lastEnd, registry, toolState, timeline>>

\* the gateway but for its configuration
InitGateway ==
    /\ clock = StartTime
    /\ calls = <<>>
    /\ creq = [r \in CreateReqs |-> IdleCreate]
    /\ handlerCalls = 0
    /\ effects = [k \in SideEffectTools \X IdemKeys |-> 0]
    /\ firstEnv = [k \in SideEffectTools \X IdemKeys |-> NoEnv]
    /\ lastTool = NoTool
    /\ transcripts = <<>>
    /\ areq = [a \in AppendReqs |-> IdleAppend]
    /\ lastAppend = NoAppend
    /\ detail = NoDetail
    /\ lastEnd = NoEnd

\* no notification, no contact, no request; the templates as constructed
InitSms ==
    /\ notifications = <<>>
    /\ contacts = [p \in SmsPhones |-> "absent"]
    /\ handed = <<>>
    /\ sreq = [s \in SmsReqs |-> IdleSms]
    /\ templates = OriginalTemplate
    /\ confirmed = [p \in SmsPhones |-> ""]

\* no websocket connection, no active session
InitRelay ==
    /\ ws = [c \in WsConns |-> IdleWs]
    /\ active_sessions = [sid \in Sids |-> 0]

\* no search filter was built
InitSearch == filterIn = DefaultFilter /\ filter = NoFilter

\* everything but the configuration
InitState == InitGateway /\ InitSearch /\ InitSms /\ InitRelay

\* the service under the default configuration
Init ==
    /\ JWT_TTL_MINUTES = DefaultTtlMinutes
    /\ InitState

\* the service under any configured token lifetime
InitConfig ==
    /\ JWT_TTL_MINUTES \in TtlConfigs
    /\ InitState

\* the call registry under concurrent create-call requests
Next ==
    \/ \E t \in Times : Tick(t)
    \/ \E r \in CreateReqs, t \in Tenants, s \in Sids, c \in Callers, a \in Agents,
          svcOk \in BOOLEAN, storeOk \in BOOLEAN :
          create_call_lookup(r, t, s, c, a, svcOk, storeOk)
    \/ \E r \in CreateReqs, storeOk \in BOOLEAN : create_call_insert(r, storeOk)

Spec == Init /\ [][Next]_vars

\* the call registry of a deployment that sets JWT_TTL_MIN
SpecConfig == InitConfig /\ [][Next]_vars

\* one telephony session over a store that answers: its create-call requests
\* and the tool requests that carry the tokens they returned, with complete
\* arguments and no key
SessionSid == "CA1"
ToolCallIds == {1, 2}

NextTools ==
    \/ \E r \in CreateReqs, t \in Tenants, c \in Callers, a \in Agents :
          create_call_lookup(r, t, SessionSid, c, a, TRUE, TRUE)
    \/ \E r \in CreateReqs : create_call_insert(r, TRUE)
    \/ \E hdr \in Headers, call_id \in ToolCallIds, tenant_id \in Tenants, tool \in ToolNames,
          svcOk \in BOOLEAN :
          execute_tool(hdr, call_id, tenant_id, tool, "ok", NoKey, svcOk, TRUE)

SpecTools == Init /\ [][NextTools]_vars

\* retries of the side-effecting tools: one tenant's session, requests whose
\* body matches their token, with and without an idempotency key, across two
\* seconds
SessionTenants == {"t1"}
SessionTimes == {StartTime, StartTime + 1}
BearerHeaders == {h \in Headers : h.kind = "bearer"}

NextIdem ==
    \/ \E t \in SessionTimes : Tick(t)
    \/ \E r \in CreateReqs, t \in SessionTenants, c \in Callers, a \in Agents :
          create_call_lookup(r, t, SessionSid, c, a, TRUE, TRUE)
    \/ \E r \in CreateReqs : create_call_insert(r, TRUE)
    \/ \E hdr \in BearerHeaders, tool \in SideEffectTools, args \in ArgShapes, key \in IdemKeys :
          execute_tool(hdr, hdr.tok.sub, hdr.tok.tenant_id, tool, args, key, TRUE, TRUE)

SpecIdem == Init /\ [][NextIdem]_vars

\* the timeline of one tenant's session: appends that overlap, and listings
NextTimeline ==
    \/ \E t \in SessionTimes : Tick(t)
    \/ \E r \in CreateReqs, t \in SessionTenants, c \in Callers, a \in Agents :
          create_call_lookup(r, t, SessionSid, c, a, TRUE, TRUE)
    \/ \E r \in CreateReqs : create_call_insert(r, TRUE)
    \/ \E a \in AppendReqs, hdr \in Headers, call_id \in ToolCallIds, evt \in EventShapes,
          svcOk \in BOOLEAN : add_call_event(a, hdr, call_id, evt, svcOk)
    \/ \E a \in AppendReqs, outcome \in StoreOutcomes : add_call_event_insert(a, outcome)
    \/ \E call_id \in ToolCallIds, storeOk \in BOOLEAN : get_call_detail(call_id, storeOk)

SpecTimeline == Init /\ [][NextTimeline]_vars

\* authentication of the requests of one call over the life of its token: one
\* create-call, then every kind of Authorization header on both authenticated
\* endpoints, before and after expiry
AuthCallId == 1
AuthCreateReqs == {AuthCallId}
AuthEvent == [type |-> "turn", role |-> "user", text |-> "hello", ts |-> "iso"]

NextAuth ==
    \/ \E t \in Times : Tick(t)
    \/ \E r \in AuthCreateReqs, t \in SessionTenants, c \in Callers, a \in Agents :
          create_call_lookup(r, t, SessionSid, c, a, TRUE, TRUE)
    \/ \E r \in AuthCreateReqs : create_call_insert(r, TRUE)
    \/ \E hdr \in Headers, t \in SessionTenants :
          execute_tool(hdr, AuthCallId, t, "transfer_to_human", "ok", NoKey, TRUE, TRUE)
    \/ \E a \in AppendReqs, hdr \in Headers : add_call_event(a, hdr, AuthCallId, AuthEvent, TRUE)
    \/ \E a \in AppendReqs : add_call_event_insert(a, "ok")

SpecAuth == Init /\ [][NextAuth]_vars

\* verification of tokens that validate against JWT_SECRET and carry any scope
\* claim: the payload of a minted token with its scope replaced
ScopeSets == SUBSET {"events", "tools"}
ScopedHeaders ==
    {[kind |-> "bearer", tok |-> [t EXCEPT !.scope = sc]] : t \in MintedTokens, sc \in ScopeSets}

NextScope ==
    \/ \E t \in SessionTimes : Tick(t)
    \/ \E r \in AuthCreateReqs, t \in SessionTenants, c \in Callers, a \in Agents :
          create_call_lookup(r, t, SessionSid, c, a, TRUE, TRUE)
    \/ \E r \in AuthCreateReqs : create_call_insert(r, TRUE)
    \/ \E hdr \in ScopedHeaders, t \in SessionTenants :
          execute_tool(hdr, AuthCallId, t, "transfer_to_human", "ok", NoKey, TRUE, TRUE)
    \/ \E a \in AppendReqs, hdr \in ScopedHeaders :
          add_call_event(a, hdr, AuthCallId, AuthEvent, TRUE)
    \/ \E a \in AppendReqs : add_call_event_insert(a, "ok")

SpecScope == Init /\ [][NextScope]_vars

\* append-event requests of one tenant's two sessions, authenticated with a
\* token of one of its calls, for every body and every answer of the store
AppendCreateReqs == {1, 2}

NextAppend ==
    \/ \E r \in AppendCreateReqs, t \in SessionTenants, s \in Sids, c \in Callers, a \in Agents :
          create_call_lookup(r, t, s, c, a, TRUE, TRUE)
    \/ \E r \in AppendCreateReqs : create_call_insert(r, TRUE)
    \/ \E a \in AppendReqs, hdr \in BearerHeaders, call_id \in ToolCallIds, evt \in EventShapes,
          svcOk \in BOOLEAN : add_call_event(a, hdr, call_id, evt, svcOk)
    \/ \E a \in AppendReqs, outcome \in StoreOutcomes : add_call_event_insert(a, outcome)

SpecAppend == Init /\ [][NextAppend]_vars

\* the life of a session's timeline: create-call, appends, deletion of calls
NextLifecycle ==
    \/ \E r \in AppendCreateReqs, t \in SessionTenants, c \in Callers, a \in Agents :
          create_call_lookup(r, t, SessionSid, c, a, TRUE, TRUE)
    \/ \E r \in AppendCreateReqs : create_call_insert(r, TRUE)
    \/ \E a \in AppendReqs, hdr \in BearerHeaders :
          add_call_event(a, hdr, hdr.tok.sub, AuthEvent, TRUE)
    \/ \E a \in AppendReqs : add_call_event_insert(a, "ok")
    \/ \E call_id \in ToolCallIds, onDelete \in OnDeleteRules, storeOk \in BOOLEAN :
          delete_call(call_id, onDelete, storeOk)
    \/ \E call_ids \in SUBSET ToolCallIds, onDelete \in OnDeleteRules, storeOk \in BOOLEAN :
          bulk_delete_calls(call_ids, onDelete, storeOk)

SpecLifecycle == Init /\ [][NextLifecycle]_vars

\* the dispatcher under every request of one call's token: each tool name, each
\* shape of the arguments, with and without an idempotency key, with the store
\* client and the search service available or not
NextDispatch ==
    \/ \E t \in SessionTimes : Tick(t)
    \/ \E r \in AuthCreateReqs, t \in SessionTenants, c \in Callers, a \in Agents :
          create_call_lookup(r, t, SessionSid, c, a, TRUE, TRUE)
    \/ \E r \in AuthCreateReqs : create_call_insert(r, TRUE)
    \/ \E hdr \in BearerHeaders, t \in SessionTenants, tool \in RequestedTools,
          args \in ArgShapes, key \in IdemKeys, svcOk \in BOOLEAN, serviceOk \in BOOLEAN :
          execute_tool(hdr, AuthCallId, t, tool, args, key, svcOk, serviceOk)

SpecDispatch == Init /\ [][NextDispatch]_vars

\* searches that wait on the search service. The handler awaits the service
\* with no deadline of its own: time passes and the second store call of a
\* create-call is made, but nothing obliges the service to answer.
NextTimeout ==
    \/ \E t \in SessionTimes : Tick(t)
    \/ \E r \in AuthCreateReqs, t \in SessionTenants, c \in Callers, a \in Agents :
          ~InFlight /\ create_call_lookup(r, t, SessionSid, c, a, TRUE, TRUE)
    \/ \E r \in AuthCreateReqs : ~InFlight /\ create_call_insert(r, TRUE)
    \/ \E hdr \in BearerHeaders, t \in SessionTenants, args \in ArgShapes,
          key \in IdemKeys, svcOk \in BOOLEAN :
          execute_tool_search_begin(hdr, AuthCallId, t, args, key, svcOk)
    \/ \E serviceOk \in BOOLEAN : search_completes(serviceOk)

SpecTimeout ==
    /\ Init /\ [][NextTimeout]_vars
    /\ WF_vars(\E t \in SessionTimes : Tick(t))
    /\ WF_vars(\E r \in AuthCreateReqs : ~InFlight /\ create_call_insert(r, TRUE))

\* repeated create-call requests for one session that declare other tenants,
\* caller numbers and agent numbers than the first, a second apart
CallerNumbers == {"+1555", "+1666"}
AgentNumbers == {"+1999", "+1888"}

NextFirstWrite ==
    \/ \E t \in SessionTimes : Tick(t)
    \/ \E r \in CreateReqs, t \in Tenants, c \in CallerNumbers, a \in AgentNumbers,
          storeOk \in BOOLEAN :
          create_call_lookup(r, t, SessionSid, c, a, TRUE, storeOk)
    \/ \E r \in CreateReqs : create_call_insert(r, TRUE)

SpecFirstWrite == Init /\ [][NextFirstWrite]_vars

\* the end of a call signalled more than once (on the stop message and again
\* on disconnect), with and without a duration and a transcript
EndDurations == {0, 30, 45}
EndTranscripts == {"", "caller: hello"}

NextEndCall ==
    \/ \E t \in SessionTimes : Tick(t)
    \/ \E r \in AuthCreateReqs, t \in SessionTenants, c \in Callers, a \in Agents :
          create_call_lookup(r, t, SessionSid, c, a, TRUE, TRUE)
    \/ \E r \in AuthCreateReqs : create_call_insert(r, TRUE)
    \/ \E call_id \in ToolCallIds, duration \in EndDurations, transcript \in EndTranscripts,
          storeOk \in BOOLEAN : end_call(call_id, duration, transcript, storeOk)

SpecEndCall == Init /\ [][NextEndCall]_vars

\* the status of a call over its life: creation, end of call, archiving
NextStatus ==
    \/ \E t \in SessionTimes : Tick(t)
    \/ \E r \in AppendCreateReqs, t \in SessionTenants, s \in Sids, c \in Callers, a \in Agents :
          create_call_lookup(r, t, s, c, a, TRUE, TRUE)
    \/ \E r \in AppendCreateReqs : create_call_insert(r, TRUE)
    \/ \E call_id \in ToolCallIds, duration \in EndDurations, storeOk \in BOOLEAN :
          end_call(call_id, duration, "", storeOk)
    \/ \E call_id \in ToolCallIds, storeOk \in BOOLEAN : archive_call(call_id, storeOk)

SpecStatus == Init /\ [][NextStatus]_vars

\* search filters built from pages and page sizes below, in and above their
\* range and from every sort, valid or not
MaxPageIn == 3
MaxPageSizeIn == 52
FilterInputs ==
    [page : -1..MaxPageIn, page_size : -1..MaxPageSizeIn,
     sort : valid_sorts \cup {"invalid_sort"}]

InitFilter ==
    /\ JWT_TTL_MINUTES = DefaultTtlMinutes /\ InitGateway /\ InitSms /\ InitRelay
    /\ filterIn \in FilterInputs /\ filter = NoFilter

NextFilter == PropertySearchFilter

SpecFilter == InitFilter /\ [][NextFilter]_vars

\* send_sms requests with and without an idempotency key, two of them possibly
\* in flight at once, under either rule of the notifications table
SmsRecipient == "+15550001"
RetryOutcomes ==
    {[kind |-> "ok", status |-> 0], [kind |-> "rest", status |-> 400],
     [kind |-> "rest", status |-> 500]}

NextSms ==
    \/ \E s \in SmsReqs, key \in SmsKeys, idemOk \in BOOLEAN, keyRule \in NotificationKeyRules,
          out \in RetryOutcomes, updOk \in BOOLEAN :
          send_sms(s, SmsRecipient, key, NoTest, FALSE, idemOk, TRUE, TRUE, TRUE, TRUE, keyRule,
                   out, updOk)
    \/ \E s \in SmsReqs, out \in RetryOutcomes, updOk \in BOOLEAN :
          send_twilio_sms_retry(s, out, updOk)

SpecSms == Init /\ [][NextSms]_vars

\* one send_sms request under every answer of the store and of the provider
ProviderReqs == {1}

NextProvider ==
    \/ \E to \in SmsPhones \cup {InvalidPhone}, key \in SmsKeys, mock \in BOOLEAN,
          tenantOk \in BOOLEAN, optOk \in BOOLEAN, renderOk \in BOOLEAN, insertOk \in BOOLEAN,
          out \in ProviderOutcomes, updOk \in BOOLEAN :
          \E s \in ProviderReqs :
             send_sms(s, to, key, NoTest, mock, TRUE, tenantOk, optOk, renderOk, insertOk,
                      "none", out, updOk)
    \/ \E s \in ProviderReqs, out \in ProviderOutcomes, updOk \in BOOLEAN :
          send_twilio_sms_retry(s, out, updOk)

SpecProvider == Init /\ [][NextProvider]_vars

\* inbound STOP, START and other messages of one number between send_sms
\* requests to it, the store failing or not
NextOptOut ==
    \/ \E body \in InboundBodies, storeOk \in BOOLEAN :
          handle_inbound_sms(SmsRecipient, body, storeOk)
    \/ \E s \in SmsReqs, optOk \in BOOLEAN, out \in RetryOutcomes :
          send_sms(s, SmsRecipient, NoKey, NoTest, FALSE, TRUE, TRUE, optOk, TRUE, TRUE, "none",
                   out, TRUE)
    \/ \E s \in SmsReqs, out \in RetryOutcomes : send_twilio_sms_retry(s, out, TRUE)

SpecOptOut == Init /\ [][NextOptOut]_vars

\* test requests and ordinary requests, possibly in flight at once
NextTestSms ==
    \/ \E s \in SmsReqs, test \in TestMessages \cup {NoTest}, renderOk \in BOOLEAN,
          out \in RetryOutcomes :
          send_sms(s, SmsRecipient, NoKey, test, FALSE, TRUE, TRUE, TRUE, renderOk, TRUE, "none",
                   out, TRUE)
    \/ \E s \in SmsReqs, out \in RetryOutcomes : send_twilio_sms_retry(s, out, TRUE)

SpecTestSms == Init /\ [][NextTestSms]_vars

\* websocket connections of calls, ending each of the three ways
NextRelay ==
    \/ \E c \in WsConns, sid \in Sids, queryOk \in BOOLEAN, svcOk \in BOOLEAN, initOk \in BOOLEAN :
          websocket_connect(c, sid, queryOk, svcOk, initOk)
    \/ \E c \in WsConns, type \in WsMessages, lead \in BOOLEAN : websocket_message(c, type, lead)
    \/ \E c \in WsConns, storeOk \in BOOLEAN, finallyOk \in BOOLEAN :
          websocket_end(c, storeOk, finallyOk)
    \/ \E c \in WsConns, how \in WsAborts, storeOk \in BOOLEAN : websocket_abort(c, how, storeOk)

SpecRelay == Init /\ [][NextRelay]_vars

(* ======================= properties ======================= *)

DoneOk(r) == creq[r].pc = "done" /\ creq[r].status = 200

\* C1: in every reachable state at most one Call row exists per twilio_sid,
\* also when two requests ran their lookup before either ran its insert.
C1_OneCallPerSid == \A s \in Sids : Cardinality(CallsBySid(s)) <= 1

\* two requests for one sid both saw no row, one inserted, the other was refused
C1_Witness ==
    \E r1, r2 \in CreateReqs :
       /\ r1 # r2
       /\ creq[r1].twilio_sid = creq[r2].twilio_sid
       /\ creq[r1].lk = "none" /\ creq[r2].lk = "none"
       /\ creq[r1].ins = "ok" /\ creq[r2].ins = "unique_violation"
       /\ Cardinality(CallsBySid(creq[r1].twilio_sid)) = 1

\* C2: all create-call requests for one twilio_sid that return successfully
\* return the same call_id.
C2_SameCallId ==
    \A r1, r2 \in CreateReqs :
       (DoneOk(r1) /\ DoneOk(r2) /\ creq[r1].twilio_sid = creq[r2].twilio_sid)
          => creq[r1].call_id = creq[r2].call_id

\* one request created the call, a later one found it
C2_Witness ==
    \E r1, r2 \in CreateReqs :
       /\ DoneOk(r1) /\ DoneOk(r2)
       /\ creq[r1].twilio_sid = creq[r2].twilio_sid
       /\ creq[r1].ins = "ok" /\ creq[r2].lk = "found"
       /\ creq[r1].call_id = creq[r2].call_id

\* C3: a create-call request that loses the creation race (its lookup saw no
\* row, its insert hit the uniqueness constraint) answers 200 with the winning
\* call's id and a token, never with an error.
C3_RaceRecovered ==
    \A r \in CreateReqs :
       (creq[r].pc = "done" /\ creq[r].lk = "none" /\ creq[r].ins = "unique_violation")
          => /\ creq[r].status = 200
             /\ creq[r].call_id \in {calls[i].id : i \in CallsBySid(creq[r].twilio_sid)}
             /\ creq[r].jwt_token # NoToken

\* the last execute-tool request carried a valid token bound to another
\* (call, tenant) pair than its body declares
ToolMismatch(t) ==
    /\ t.auth # NoAuth
    /\ (t.auth.call_id # t.call_id \/ t.auth.tenant_id # t.tenant_id)

\* C4: an execute-tool request whose token-bound (call, tenant) pair differs from
\* the declared pair in either component is answered 403 and runs no handler.
C4_MismatchForbidden ==
    [][(lastTool'.n # lastTool.n /\ ToolMismatch(lastTool'))
         => (lastTool'.status = 403 /\ ~lastTool'.invoked /\ handlerCalls' = handlerCalls)]_vars

\* after a handler has run, a request whose token matches the declared call but
\* not the declared tenant was refused
C4_Witness ==
    /\ handlerCalls > 0
    /\ lastTool.status = 403
    /\ lastTool.auth # NoAuth
    /\ lastTool.auth.call_id = lastTool.call_id
    /\ lastTool.auth.tenant_id # lastTool.tenant_id

\* C5: every accepted execute-tool request presents a token whose (call id,
\* tenant id) pair is the (id, tenant_id) of a stored Call.
C5_TokenMatchesCall ==
    lastTool.invoked
       => \E i \in 1..Len(calls) :
             calls[i].id = lastTool.auth.call_id /\ calls[i].tenant_id = lastTool.auth.tenant_id

\* C6: for each side-effecting tool and each idempotency key at most one
\* booking / callback is created, and every later request with that key is
\* answered with the envelope of the first successful one.
C6_IdempotentReplay ==
    \A tool \in SideEffectTools, key \in IdemKeys \ {NoKey} :
       /\ effects[<<tool, key>>] <= 1
       /\ (lastTool.invoked /\ lastTool.tool = tool /\ lastTool.key = key
             /\ firstEnv[<<tool, key>>].ok)
            => lastTool.env = firstEnv[<<tool, key>>]

SeqOf(i) == transcripts[i].sequence_number

\* row i was stored before the request that wrote row j started
CompletedBefore(i, j) == i <= transcripts[j].prior

\* C7: per call, no two persisted events carry the same sequence number, and an
\* event appended after another append completed carries a larger one.
C7_SeqStrictlyIncreasing ==
    \A i, j \in 1..Len(transcripts) :
       (i # j /\ transcripts[i].call_id = transcripts[j].call_id)
          => /\ SeqOf(i) # SeqOf(j)
             /\ CompletedBefore(i, j) => SeqOf(i) < SeqOf(j)

\* two rows of the listing were written by appends that overlapped
ListedConcurrent ==
    \E i, j \in RowsOf(detail.call_id) : i < j /\ ~CompletedBefore(i, j)

\* C8: when turn events were appended concurrently, the sequence numbers read
\* back by call-detail are strictly increasing, without duplicates or gaps.
C8_ListGapFree ==
    (detail.status = 200 /\ ListedConcurrent)
       => \A p \in 1..(Len(detail.rows) - 1) :
             SeqOf(detail.rows[p + 1]) = SeqOf(detail.rows[p]) + 1

\* C9: call-detail lists the events by sequence number, and an event whose
\* append completed before another append began is listed before it.
C9_ListRespectsAppendOrder ==
    (detail.status = 200)
       => /\ OrderedBySeq(detail.rows)
          /\ \A p, q \in 1..Len(detail.rows) :
                p < q => ~CompletedBefore(detail.rows[q], detail.rows[p])

BearerOf(tok) == [kind |-> "bearer", tok |-> tok]
BoundPair(r) == [call_id |-> creq[r].call_id, tenant_id |-> creq[r].tenant_id]

ToolArrives == lastTool'.n # lastTool.n
\* append-event request a arrives in this step
AppendArrives(a) == areq[a].pc = "idle" /\ areq'[a].pc # "idle"
\* the Authorization header it presents
ArrivedHdr(a) == IF areq'[a].pc = "insert" THEN areq'[a].hdr ELSE lastAppend'.hdr
\* it is answered at once with this status and stores nothing, now or later
AppendRefused(a, status) ==
    /\ areq'[a].pc = "done"
    /\ lastAppend'.a = a /\ lastAppend'.status = status
    /\ transcripts' = transcripts
\* it is answered with this status and no handler runs
ToolRefused(status) ==
    /\ lastTool'.status = status
    /\ ~lastTool'.invoked
    /\ handlerCalls' = handlerCalls /\ effects' = effects

Expired(hdr) == hdr.kind = "bearer" /\ hdr.tok.exp < clock

\* C11: every append-event or execute-tool request that presents a token after
\* the token's expiry is answered 401; no handler runs and no row is persisted.
C11_ExpiredRejected ==
    [][/\ (ToolArrives /\ Expired(lastTool'.hdr)) => ToolRefused(401)
       /\ \A a \in AppendReqs :
             (AppendArrives(a) /\ Expired(ArrivedHdr(a))) => AppendRefused(a, 401)]_vars

\* a token that ran a handler and stored a row is refused on both endpoints
\* after its expiry
C11_Witness ==
    /\ Expired(lastTool.hdr) /\ lastTool.status = 401
    /\ Expired(lastAppend.hdr) /\ lastAppend.status = 401
    /\ lastTool.hdr = lastAppend.hdr
    /\ handlerCalls > 0
    /\ \E i \in 1..Len(transcripts) : transcripts[i].call_id = lastAppend.hdr.tok.sub

Unauthenticated(hdr) == hdr.kind \in {"absent", "not_bearer", "forged"}

\* C15: a request whose token is absent, is not a well-formed bearer token or
\* carries a signature that does not validate is answered 401; append-event
\* persists no row and execute-tool invokes no handler.
C15_UnauthenticatedRejected ==
    [][/\ (ToolArrives /\ Unauthenticated(lastTool'.hdr)) => ToolRefused(401)
       /\ \A a \in AppendReqs :
             (AppendArrives(a) /\ Unauthenticated(ArrivedHdr(a))) => AppendRefused(a, 401)]_vars

\* while a call with a valid token exists, a forged token was refused by
\* execute-tool and a request without a header by append-event
C15_Witness ==
    /\ lastTool.hdr.kind = "forged" /\ lastTool.status = 401 /\ ~lastTool.invoked
    /\ lastAppend.hdr.kind = "absent" /\ lastAppend.status = 401
    /\ \E r \in CreateReqs : DoneOk(r) /\ clock < creq[r].jwt_token.exp
    /\ transcripts = <<>> /\ handlerCalls = 0

\* C12: the lifetime of every minted token (exp - iat) is at most 15 minutes,
\* whatever lifetime is configured.
C12_LifetimeBounded ==
    \A r \in CreateReqs :
       DoneOk(r) => creq[r].jwt_token.exp - creq[r].jwt_token.iat
                       <= DefaultTtlMinutes * SecondsPerMinute

\* C13: every successful create-call response carries a token, and any two
\* successful responses for one twilio_sid carry distinct tokens, each of which
\* verifies (while it lives) to the same call_id.
C13_FreshToken ==
    /\ \A r \in CreateReqs : DoneOk(r) => creq[r].jwt_token # NoToken
    /\ \A r1, r2 \in CreateReqs :
          (r1 # r2 /\ DoneOk(r1) /\ DoneOk(r2) /\ creq[r1].twilio_sid = creq[r2].twilio_sid)
             => /\ creq[r1].jwt_token # creq[r2].jwt_token
                /\ \A r \in {r1, r2} :
                      clock < creq[r].jwt_token.exp
                         => LET v == verify_call_jwt(BearerOf(creq[r].jwt_token), clock) IN
                            v[1] = 200 /\ v[2].call_id = creq[r1].call_id

\* a call created and found again within one second by the same tenant: the two
\* tokens agree in subject, tenant, scope, issue time and expiry
C13_Witness ==
    \E r1, r2 \in CreateReqs :
       /\ DoneOk(r1) /\ DoneOk(r2)
       /\ creq[r1].ins = "ok" /\ creq[r2].lk = "found"
       /\ creq[r1].twilio_sid = creq[r2].twilio_sid
       /\ creq[r1].tenant_id = creq[r2].tenant_id
       /\ creq[r1].jwt_token.iat = creq[r2].jwt_token.iat
       /\ creq[r1].jwt_token.sub = creq[r2].jwt_token.sub
       /\ clock < creq[r1].jwt_token.exp

\* append-event request a is accepted in this step
AppendAccepted(a) ==
    areq'[a].pc = "insert" \/ (lastAppend'.a = a /\ lastAppend'.status = 200)

\* C14: append-event is accepted only with a token whose scope contains
\* "events", execute-tool only with one whose scope contains "tools"; a token
\* holding only the other scope is answered 403.
C14_ScopePerOperation ==
    [][/\ (ToolArrives /\ lastTool'.status = 200) => "tools" \in lastTool'.hdr.tok.scope
       /\ (ToolArrives /\ lastTool'.hdr.tok.scope = {"events"}) => ToolRefused(403)
       /\ \A a \in AppendReqs :
             /\ (AppendArrives(a) /\ AppendAccepted(a)) => "events" \in ArrivedHdr(a).tok.scope
             /\ (AppendArrives(a) /\ ArrivedHdr(a).tok.scope = {"tools"})
                   => AppendRefused(a, 403)]_vars

\* append-event request a as it arrived in this step: header, verified context,
\* path call id, event
Arrived(a) == IF areq'[a].pc = "insert" THEN areq'[a] ELSE lastAppend'
\* its token verified and is bound to the call of the path
Authorized(q) == q.auth # NoAuth /\ q.auth.call_id = q.call_id

C17_SkipNonTurn ==
    [][\A a \in AppendReqs :
          (AppendArrives(a) /\ Authorized(Arrived(a)))
          => /\ (Arrived(a).evt.type # "turn" \/ Arrived(a).evt.text = "")
                  => (AppendRefused(a, 200) /\ lastAppend'.skipped)
             /\ (Arrived(a).evt.type = "turn" /\ Arrived(a).evt.text # "")
                  => (areq'[a].pc = "done" => ~lastAppend'.skipped)]_vars

\* C18: an authorized append-event of type "prompt" is answered 200 with
\* skipped and stores no row.
C18_PromptSkipped ==
    [][\A a \in AppendReqs :
          (AppendArrives(a) /\ Authorized(Arrived(a)) /\ Arrived(a).evt.type = "prompt")
          => (AppendRefused(a, 200) /\ lastAppend'.skipped)]_vars

\* C19: an append-event whose timestamp does not parse stores no row, for an
\* authorized request with a body that parses the answer is 400, and no stored
\* row carries anything but the parsed timestamp of its request.
C19_MalformedTimestamp ==
    [][/\ \A a \in AppendReqs :
             (AppendArrives(a) /\ Arrived(a).evt.ts = "malformed")
             => /\ areq'[a].pc = "done"
                /\ transcripts' = transcripts
                /\ (Authorized(Arrived(a)) /\ CallEventValid(Arrived(a).evt))
                      => AppendRefused(a, 400)
       /\ \A i \in 1..Len(transcripts') : transcripts'[i].timestamp = "iso"]_vars

\* after a turn was stored, a turn with text and a timestamp that does not
\* parse was answered 400 on the same call
C19_Witness ==
    /\ lastAppend.status = 400
    /\ Authorized(lastAppend)
    /\ lastAppend.evt.type = "turn" /\ lastAppend.evt.text # ""
    /\ lastAppend.evt.ts = "malformed"
    /\ Len(transcripts) = 1 /\ transcripts[1].call_id = lastAppend.call_id

\* C20: a persisted event row is never updated or deleted: every row present
\* before a step is present and unchanged after it.
C20_AppendOnly ==
    [][\A i \in 1..Len(transcripts) :
          ~transcripts[i].deleted
             => (i <= Len(transcripts') /\ transcripts'[i] = transcripts[i])]_vars

\* C21: every envelope execute-tool returns has exactly one of data and error:
\* ok implies data and no error; not ok implies an error with code, message and
\* retryable, and no data.
C21_EnvelopeExclusive ==
    lastTool.status = 200
       => LET e == lastTool.env IN
          /\ e.ok => (e.data /\ ~e.error)
          /\ ~e.ok => (e.error /\ ~e.data /\ e.code # "" /\ e.message
                         /\ e.retryable \in BOOLEAN)

\* after a booking succeeded, a request was answered with a validation error
C21_Witness ==
    /\ lastTool.status = 200 /\ ~lastTool.env.ok
    /\ lastTool.env.code = "VALIDATION_FAILED"
    /\ \E key \in IdemKeys : firstEnv[<<"book_showing", key>>].ok

\* C22: in every error envelope VALIDATION_FAILED and NOT_FOUND carry
\* retryable = false, TOOL_FAILED and TIMEOUT carry retryable = true.
C22_RetryableByKind ==
    (lastTool.status = 200 /\ ~lastTool.env.ok)
       => /\ lastTool.env.code \in {"VALIDATION_FAILED", "NOT_FOUND"} => ~lastTool.env.retryable
          /\ lastTool.env.code \in {"TOOL_FAILED", "TIMEOUT"} => lastTool.env.retryable

C24_UnknownToolNotFound ==
    [][(ToolArrives /\ lastTool'.auth # NoAuth /\ ~ToolMismatch(lastTool')
          /\ lastTool'.tool \in RequestedTools \ ToolNames)
         => (lastTool'.status = 200 /\ lastTool'.env = ErrEnv("NOT_FOUND", FALSE)
               /\ handlerCalls' = handlerCalls)]_vars

\* C25: book_showing, request_callback and qualify_lead answer a request with a
\* required argument missing or malformed with VALIDATION_FAILED, retryable =
\* false, and produce no side effect and no record id.
C25_ArgumentsValidated ==
    [][(ToolArrives /\ lastTool'.invoked
          /\ lastTool'.tool \in {"book_showing", "request_callback", "qualify_lead"}
          /\ lastTool'.args \in {"missing", "malformed"})
         => (lastTool'.env = ErrEnv("VALIDATION_FAILED", FALSE) /\ effects' = effects)]_vars

\* tools without side effects
PureTools == ToolNames \ SideEffectTools

\* C26: for search_properties, qualify_lead and transfer_to_human the result
\* of an execution is the result of the same execution under every other
\* idempotency key, and nothing is recorded for the key.
C26_KeyIgnored ==
    [][(ToolArrives /\ lastTool'.invoked /\ lastTool'.tool \in PureTools)
         => /\ effects' = effects /\ firstEnv' = firstEnv
            /\ \E serviceOk \in BOOLEAN : \A key \in IdemKeys :
                  Dispatch(lastTool'.tool, lastTool'.args, key, clock, serviceOk)
                     = <<lastTool'.env, FALSE, lastTool'.raised>>]_vars

\* a lead was qualified twice under the same key, a second later
C26_Witness ==
    /\ lastTool.invoked /\ lastTool.tool = "qualify_lead"
    /\ lastTool.key # NoKey /\ lastTool.n > 1
    /\ lastTool.env.ok /\ lastTool.env.id = clock /\ clock > StartTime

\* C27: every execution that reaches a handler appends a tool_call event and
\* then a tool_result event to the timeline of the call, in sequence order.
C27_ToolEventsPaired ==
    [][(ToolArrives /\ lastTool'.invoked)
         => /\ Len(transcripts') = Len(transcripts) + 2
            /\ \A i \in (Len(transcripts) + 1)..Len(transcripts') :
                  transcripts'[i].call_id = lastTool'.call_id
            /\ transcripts'[Len(transcripts) + 1].sequence_number
                  <= transcripts'[Len(transcripts) + 2].sequence_number]_vars

\* C28: every execute-tool request whose handler waits on the search service is
\* eventually answered with an envelope (TIMEOUT, retryable, when the service
\* does not answer in time).
C28_EventuallyAnswered == InFlight ~> (lastTool.status = 200)

\* the lookup of request r found a call in this step
FoundNow(r) == creq[r].pc = "idle" /\ creq'[r].pc = "done" /\ creq'[r].lk = "found"

\* C29: a create-call for a session id that already has a Call returns the id
\* of that Call and leaves every stored Call as it was, whatever tenant, caller
\* and agent number the request declares.
C29_FirstWriteWins ==
    [][\A r \in CreateReqs :
          FoundNow(r)
             => /\ calls' = calls
                /\ creq'[r].status = 200
                /\ \E i \in CallsBySid(creq'[r].twilio_sid) : calls[i].id = creq'[r].call_id]_vars

\* a later request with another caller and agent number found the call, whose
\* row still holds the numbers and the start time of the first write
C29_Witness ==
    \E r \in CreateReqs : \E i \in CallsBySid(creq[r].twilio_sid) :
       /\ creq[r].pc = "done" /\ creq[r].lk = "found" /\ creq[r].status = 200
       /\ creq[r].call_id = calls[i].id
       /\ creq[r].caller_number # calls[i].caller_number
       /\ creq[r].agent_number # calls[i].agent_number
       /\ calls[i].started_at < clock

\* C30: end_call on a call that is already completed succeeds and changes
\* nothing in the row except the duration when one is given: status stays
\* completed and the end time of the first completion is kept.
C30_EndCallIdempotent ==
    [][(lastEnd'.n # lastEnd.n /\ RowsById(lastEnd'.call_id) # {}
          /\ \A i \in RowsById(lastEnd'.call_id) : calls[i].status = "completed")
         => \/ ~lastEnd'.ok /\ calls' = calls
            \/ /\ lastEnd'.ok
               /\ calls' = [i \in 1..Len(calls) |->
                     IF i \in RowsById(lastEnd'.call_id) /\ lastEnd'.duration # 0
                     THEN [calls[i] EXCEPT !.duration = lastEnd'.duration]
                     ELSE calls[i]]]_vars

\* C31: the status of every Call is in_progress or completed, and no operation
\* moves a Call out of completed.
C31_StatusLifecycle ==
    [][\A i \in 1..Len(calls') :
          /\ calls'[i].status \in {"in_progress", "completed"}
          /\ (i <= Len(calls) /\ calls[i].status = "completed")
                => calls'[i].status = "completed"]_vars

\* C32: every response of create-call, append-event, execute-tool and
\* call-detail is a success payload or a structured error; no failure reaches
\* the caller as an exception nobody handled.
C32_StructuredResponses ==
    /\ lastAppend.status # 0
          => lastAppend.body \in ResponseBodies \ {"unhandled"}
    /\ lastTool.status \in {0, 200, 401, 403, 422}
    /\ \A r \in CreateReqs : creq[r].status \in {0, 200, 500}
    /\ detail.status \in {0, 200, 500}

\* C33: no error response carries the text of the underlying exception or
\* store error.
C33_NoInternalDetail ==
    lastAppend.status >= 400 => lastAppend.body \in {"detail", "validation", "unhandled"}

\* C34: PropertySearchFilter clamps page to at least 1 and page_size into
\* 1..50, replaces a sort outside the valid set by price_desc, and keeps
\* in-range values unchanged.
C34_FilterNormalized ==
    filter # NoFilter
       => /\ filter.page = (IF filterIn.page < 1 THEN 1 ELSE filterIn.page)
          /\ filter.page_size = (IF filterIn.page_size < 1 THEN 1
                                 ELSE IF filterIn.page_size > 50 THEN 50
                                 ELSE filterIn.page_size)
          /\ filter.sort = (IF filterIn.sort \in {"price_asc", "price_desc", "newest",
                                                  "beds_desc", "sqft_desc"}
                            THEN filterIn.sort ELSE "price_desc")

\* page 0, a page size above the cap and an unknown sort were normalized
C34_Witness ==
    /\ filterIn.page = 0 /\ filterIn.page_size > MaxPageSize /\ filterIn.sort = "invalid_sort"
    /\ filter = [page |-> 1, page_size |-> 50, sort |-> "price_desc"]

\* provider attempts of key that the provider accepted
AcceptedFor(key) == {i \in 1..Len(handed) : handed[i].key = key /\ handed[i].accepted}

\* C35: once a notification with idempotency key K was sent, no later or
\* concurrent send_sms with K hands another message to the provider.
C35_SmsIdempotent ==
    \A key \in SmsKeys \ {NoKey} : Cardinality(AcceptedFor(key)) <= 1

\* an attempt after which send_twilio_sms goes on to the next
Retryable(out) ==
    out.kind = "other" \/ (out.kind = "rest" /\ (out.status < 400 \/ out.status > 499))

\* C36: send_twilio_sms makes at most 3 provider attempts: it returns success
\* on the first that succeeds, failure at once on a client error (400-499),
\* goes on only after a server or unexpected error, and returns "All retry
\* attempts failed" after the third failure.
C36_BoundedRetries ==
    \A s \in SmsReqs :
       LET q == sreq[s]
           n == Len(q.tries)
       IN
       /\ n <= 3
       /\ \A i \in 1..(n - 1) : Retryable(q.tries[i])
       /\ q.pc = "backoff" => (n \in 1..2 /\ Retryable(q.tries[n]))
       /\ (q.pc = "done" /\ n > 0)
             => IF q.tries[n].kind = "ok" THEN q.ok /\ q.status = "sent"
                ELSE IF ~Retryable(q.tries[n])
                THEN ~q.ok /\ q.status = "failed" /\ q.error = "Twilio error"
                ELSE n = 3 /\ ~q.ok /\ q.status = "failed"
                        /\ q.error = "All retry attempts failed"

\* a request gave up after a server error, an unexpected error and a third
\* failure
C36_Witness ==
    \E s \in SmsReqs :
       /\ sreq[s].pc = "done" /\ Len(sreq[s].tries) = 3
       /\ sreq[s].tries[1] = [kind |-> "rest", status |-> 500]
       /\ sreq[s].tries[2].kind = "other"
       /\ sreq[s].tries[3] = [kind |-> "rest", status |-> 399]
       /\ ~sreq[s].ok /\ sreq[s].error = "All retry attempts failed"

\* C38: after a STOP of a number was answered with the confirmation, no
\* send_sms to the number hands a message to the provider until a START of
\* the number is processed.
C38_OptOutHonoured ==
    [][\A i \in (Len(handed) + 1)..Len(handed') :
          handed'[i].accepted => confirmed[handed'[i].to] # "stop"]_vars

\* C39: once every started test request has finished, templates["missed_call"]
\* is its original text.
C39_TemplateRestored ==
    (\A s \in SmsReqs : sreq[s].pc # "backoff") => templates = OriginalTemplate

\* C37: create-call goes on to its insert only when its lookup established
\* that no Call exists for the session id: a lookup that failed for another
\* reason does not lead to an insert for a session id that has a Call.
C37_InsertOnlyWhenAbsent ==
    [][\A r \in CreateReqs :
          (creq[r].pc = "idle" /\ creq'[r].pc = "insert")
             => (creq'[r].lk = "none" \/ CallsBySid(creq'[r].twilio_sid) = {})]_vars

====
